---------------------------- MODULE Spec2Model ----------------------------
(***************************************************************************)
(* Recurrence engine and task lifecycle of sumire-api.                     *)
(*                                                                         *)
(*   domain/utils.py     get_start_date_of_current_week, find_next_due_date*)
(*   domain/entities.py  Repeat (find_next_date, change_interval,          *)
(*                       change_factor, change_allowed_days), Task         *)
(*                       (is_due, set_due_date, set_repeat,                *)
(*                       set_repeat_config, complete, uncomplete)          *)
(*   domain/entities_new.py  Repeat and its subclasses (get_next_date),    *)
(*                       RepeatFactory.create_repeat                       *)
(*   infrastructure/persistence/models.py  TaskModel.to_entity,            *)
(*                       TaskModel.from_entity (the repeat columns)        *)
(*   application/services/task_service.py  TaskService.complete_task,      *)
(*                       with infrastructure/repositories/unit_of_work.py  *)
(*                       and task_repository.py                            *)
(*                                                                         *)
(* A datetime is modelled by its proleptic day number counted from         *)
(* 2024-01-01 (a Monday), so that date.weekday() is the day number modulo  *)
(* 7 with 0 = Monday ... 6 = Sunday, as in Python.  The time of day is     *)
(* carried unchanged by every relativedelta the code applies and is left   *)
(* out.  An Optional value is None (the empty tuple) or Some(v).           *)
(***************************************************************************)
EXTENDS Integers, Sequences, FiniteSets, TLC

VARIABLES
    fn_args,    \* arguments of the next-date functions (reference date and rule)
    fn_op,      \* the function applied last, "none" before any call
    fn_ret,     \* what that call returned or raised
    task,       \* the Task object under operation
    op,         \* the Task operation applied last, "__init__" after construction
    raised,     \* the exception that operation raised, None when it returned
    result,     \* the value that operation returned (complete: the new task)
    pre_completed,  \* history: is_completed of the task before that operation
    spawned,    \* history: new tasks complete() returned since the last
                \* set_repeat call on the task (counted up to 2)
    repeat,     \* the entities.py Repeat object under operation, None when
                \* its construction raised
    repeat_op,  \* the Repeat operation applied last
    repeat_raised,  \* the exception that operation raised, None when it returned
    rule_args,  \* arguments given to the entities_new.py rule constructors
    rule_op,    \* the entities_new.py / storage operation applied last
    rule_ret,   \* what that operation returned or raised
    store,      \* the tasks table as committed: row i is the task of id i
    session,    \* UnitOfWork._session: None, or the open session, which is
                \* the tasks table as its transaction sees it
    pc,         \* where TaskService.complete_task stands: the call awaited
                \* next, "idle" before a call and "done" after it
    task_id,    \* complete_task: its argument
    found,      \* complete_task: its local "task"
    generated_repeat_task,  \* complete_task: its local of that name
    new_repeat_task,        \* complete_task: its local of that name
    exception,  \* the exception complete_task is raising, None when none
    store0      \* history: the committed table when complete_task was called

fn_vars == <<fn_args, fn_op, fn_ret>>
task_vars == <<task, op, raised, result, pre_completed, spawned>>
repeat_vars == <<repeat, repeat_op, repeat_raised>>
rule_vars == <<rule_args, rule_op, rule_ret>>
uow_vars == <<store, session, pc, task_id, found, generated_repeat_task, new_repeat_task, exception, store0>>
vars == <<fn_args, fn_op, fn_ret, task, op, raised, result, pre_completed, spawned, repeat, repeat_op, repeat_raised, rule_args, rule_op, rule_ret, store, session, pc, task_id, found, generated_repeat_task, new_repeat_task, exception, store0>>

----------------------------------------------------------------------------
(* Optional values *)

None == <<>>
Some(v) == <<v>>
Val(o) == o[1]

\* Python truthiness of an Optional[int] (None and 0 are falsy)
TruthyInt(o) == o # None /\ Val(o) # 0
\* Python truthiness of an Optional[list] (None and [] are falsy)
TruthyList(o) == o # None /\ Len(Val(o)) > 0
\* Python truthiness of an Optional[set] (None and set() are falsy)
TruthySet(o) == o # None /\ Val(o) # {}

Range(s) == {s[i] : i \in 1..Len(s)}
Min(S) == CHOOSE x \in S : \A y \in S : x <= y

----------------------------------------------------------------------------
(* Bounds of the model *)

MaxRef == 30        \* reference dates 2024-01-01 .. 2024-01-31
MaxFactor == 2      \* repeat factors 1 .. MaxFactor
MaxLen == 2         \* length of the allowed-weekday lists of the function calls
MaxDue == 6         \* task due dates 2024-01-01 .. 2024-01-07 (every weekday)
MaxSkip == 8        \* periods an rrule is followed in search of its next date

----------------------------------------------------------------------------
(* domain/enums.py, domain/constants.py *)

\* dateutil weekday constants MO..SU, numbered as datetime.weekday()
MO == 0
TU == 1
WE == 2
TH == 3
FR == 4
SA == 5
SU == 6
Weekday == MO..SU

START_WEEKDAY == SU
WEEKDAYS == <<MO, TU, WE, TH, FR>>

\* class RepeatInterval(IntEnum)
DAYS == 1
WEEKS == 2
MONTHS == 3
YEARS == 4
RepeatInterval == {DAYS, WEEKS, MONTHS, YEARS}

\* class RepeatType(IntEnum); the members are used as distinct tags only (the
\* source gives WEEKDAYS and WEEKLY the values "WEEDAYS" and "WEELY")
RepeatType == {"DAILY", "WEEKDAYS", "WEEKLY", "MONTHLY", "YEARLY", "CUSTOM"}

----------------------------------------------------------------------------
(* Calendar arithmetic of datetime + relativedelta *)

Epoch == [year |-> 2024, month |-> 1, day |-> 1]

IsLeap(y) == (y % 4 = 0 /\ y % 100 # 0) \/ y % 400 = 0

DaysInMonth(y, m) ==
    IF m = 2 THEN (IF IsLeap(y) THEN 29 ELSE 28)
    ELSE IF m \in {4, 6, 9, 11} THEN 30 ELSE 31

DaysInYear(y) == IF IsLeap(y) THEN 366 ELSE 365

RECURSIVE DaysBeforeYear(_)
DaysBeforeYear(y) ==
    IF y = Epoch.year THEN 0
    ELSE IF y > Epoch.year THEN DaysBeforeYear(y - 1) + DaysInYear(y - 1)
    ELSE DaysBeforeYear(y + 1) - DaysInYear(y)

RECURSIVE DaysBeforeMonth(_, _)
DaysBeforeMonth(y, m) ==
    IF m <= 1 THEN 0 ELSE DaysBeforeMonth(y, m - 1) + DaysInMonth(y, m - 1)

\* day number of the civil date y-m-d
ToOrdinal(y, m, d) == DaysBeforeYear(y) + DaysBeforeMonth(y, m) + d - 1

RECURSIVE YearOf(_, _)
YearOf(n, y) ==
    IF n < DaysBeforeYear(y + 1) THEN y ELSE YearOf(n, y + 1)

RECURSIVE MonthOf(_, _, _)
MonthOf(n, y, m) ==
    IF n < DaysBeforeYear(y) + DaysBeforeMonth(y, m + 1) THEN m
    ELSE MonthOf(n, y, m + 1)

\* civil date of day number n (n >= 0)
FromOrdinal(n) ==
    LET y == YearOf(n, Epoch.year)
        m == MonthOf(n, y, 1)
    IN [year |-> y, month |-> m,
        day |-> n - DaysBeforeYear(y) - DaysBeforeMonth(y, m) + 1]

\* datetime.weekday(): 0 = Monday ... 6 = Sunday
WeekdayOf(n) == n % 7

\* date + relativedelta(days=k), date + relativedelta(weeks=k)
AddDays(n, k) == n + k
AddWeeks(n, k) == n + 7 * k

\* date + relativedelta(months=k): the day is clamped to the target month
AddMonths(n, k) ==
    LET c == FromOrdinal(n)
        t == (c.month - 1) + k
        y == c.year + (t \div 12)
        m == (t % 12) + 1
        d == IF c.day <= DaysInMonth(y, m) THEN c.day ELSE DaysInMonth(y, m)
    IN ToOrdinal(y, m, d)

\* date + relativedelta(years=k): Feb 29 is clamped to Feb 28
AddYears(n, k) ==
    LET c == FromOrdinal(n)
        y == c.year + k
        d == IF c.day <= DaysInMonth(y, c.month) THEN c.day
             ELSE DaysInMonth(y, c.month)
    IN ToOrdinal(y, c.month, d)

\* date + relativedelta(weekday=w(-1)): the last date <= n on weekday w
BackToWeekday(n, w) == n - ((WeekdayOf(n) - w) % 7)

\* mutant: relativedelta(days=w) written for relativedelta(weekday=w)
OnToWeekday_days(n, w) == n + w

\* date + relativedelta(weekday=w): the first date >= n on weekday w
OnToWeekday(n, w) == n + ((w - WeekdayOf(n)) % 7)

----------------------------------------------------------------------------
(* Outcome of a call: it returns a value, or raises *)

Return(v) == [raised |-> None, value |-> v]
Raise(e) == [raised |-> Some(e), value |-> None]

----------------------------------------------------------------------------
(* domain/utils.py *)

\* mutant: the search for the week start begins on the day before the
\* reference date
get_start_date_of_current_week_before(reference_date, start_weekday) ==
    BackToWeekday(AddDays(reference_date, -1), start_weekday)

get_start_date_of_current_week(reference_date, start_weekday) ==
    BackToWeekday(reference_date, start_weekday)

\* "for day in repeat_allowed_weekdays": the date of the first listed weekday
\* that lies after the due date inside the current week, None if there is none
CheckCurrentWeek(start_date, last_date, due_date, allowed) ==
    LET hit(i) == /\ OnToWeekday(start_date, allowed[i]) > due_date
                  /\ OnToWeekday(start_date, allowed[i]) <= last_date
        hits == {i \in 1..Len(allowed) : hit(i)}
    IN IF hits = {} THEN None
       ELSE Some(OnToWeekday(start_date, allowed[Min(hits)]))

\* the arguments are Optional values, as Task.complete passes its fields
find_next_due_date(due_date, repeat_interval, repeat_factor, repeat_allowed_weekdays, start_weekday) ==
    IF repeat_interval = Some(DAYS) THEN
        IF due_date = None \/ repeat_factor = None THEN Raise("TypeError")
        ELSE Return(Some(AddDays(Val(due_date), Val(repeat_factor))))
    ELSE IF repeat_interval = Some(MONTHS) THEN
        IF due_date = None \/ repeat_factor = None THEN Raise("TypeError")
        ELSE Return(Some(AddMonths(Val(due_date), Val(repeat_factor))))
    ELSE IF repeat_interval = Some(YEARS) THEN
        IF due_date = None \/ repeat_factor = None THEN Raise("TypeError")
        ELSE Return(Some(AddYears(Val(due_date), Val(repeat_factor))))
    ELSE IF repeat_interval = Some(WEEKS) THEN
        IF repeat_allowed_weekdays = None THEN Raise("TypeError")
        ELSE IF Len(Val(repeat_allowed_weekdays)) = 0 THEN Raise("ValueError")
        ELSE IF due_date = None THEN Raise("TypeError")
        ELSE
            LET allowed == Val(repeat_allowed_weekdays)
                start_date_of_current_week ==
                    get_start_date_of_current_week(Val(due_date), start_weekday)
                last_date_of_current_week ==
                    AddDays(start_date_of_current_week, 6)
                current == CheckCurrentWeek(start_date_of_current_week,
                                            last_date_of_current_week,
                                            Val(due_date), allowed)
            IN IF current # None THEN Return(current)
               ELSE IF repeat_factor = None THEN Raise("TypeError")
               ELSE
                   LET start_date_of_next_week ==
                           AddWeeks(start_date_of_current_week, Val(repeat_factor))
                       first_allowed_weekday == allowed[1]
                   IN Return(Some(OnToWeekday(start_date_of_next_week,
                                              first_allowed_weekday)))
    ELSE Return(None)

----------------------------------------------------------------------------
(* domain/entities.py: class Repeat *)

\* Repeat.__post_init__: None when the rule is accepted, else the error raised
Repeat_post_init(interval, factor, allowed_weekdays) ==
    IF interval = None THEN Some("ValueError")
    ELSE IF factor = None THEN Some("ValueError")
    ELSE IF Val(factor) < 1 THEN Some("ValueError")
    ELSE IF interval = Some(WEEKS)
            /\ (allowed_weekdays = None \/ Val(allowed_weekdays) = {})
         THEN Some("ValueError")
    ELSE None

\* "for days in range(1, 6 + 1)": the first scanned date of the week whose
\* weekday is allowed, that is after the reference date and not after the
\* week's last date; None when the loop ends without returning
ScanWeek(start_date, last_date, reference_date, allowed_weekdays) ==
    LET hits == {days \in 1..6 :
                    /\ WeekdayOf(AddDays(start_date, days)) \in allowed_weekdays
                    /\ AddDays(start_date, days) > reference_date
                    /\ AddDays(start_date, days) <= last_date}
    IN IF hits = {} THEN None ELSE Some(AddDays(start_date, Min(hits)))

\* Repeat.find_next_date(self, reference_date, start_weekday); self is a rule
\* that passed __post_init__; the value is the date returned, or None
find_next_date(self, reference_date, start_weekday) ==
    IF self.interval = DAYS THEN Some(AddDays(reference_date, self.factor))
    ELSE IF self.interval = MONTHS THEN Some(AddMonths(reference_date, self.factor))
    ELSE IF self.interval = YEARS THEN Some(AddYears(reference_date, self.factor))
    ELSE IF self.interval = WEEKS THEN
        LET start_date_of_current_week ==
                get_start_date_of_current_week(reference_date, start_weekday)
            last_date_of_current_week == AddDays(start_date_of_current_week, 6)
            current == ScanWeek(start_date_of_current_week,
                                last_date_of_current_week,
                                reference_date, self.allowed_weekdays)
            start_date_of_next_week ==
                AddWeeks(start_date_of_current_week, self.factor)
            last_date_of_next_week == AddDays(start_date_of_next_week, 6)
        IN IF current # None THEN current
           ELSE ScanWeek(start_date_of_next_week, last_date_of_next_week,
                         reference_date, self.allowed_weekdays)
    ELSE None

\* outcome of a Repeat method: the object afterwards and the exception raised
RepeatOutcome(self, exc) == [repeat |-> self, raised |-> exc]

\* Repeat.change_interval: only an absent value is refused
change_interval(self, new_interval) ==
    IF new_interval = None THEN RepeatOutcome(self, Some("ValueError"))
    ELSE RepeatOutcome([self EXCEPT !.interval = Val(new_interval)], None)

\* Repeat.change_factor
change_factor(self, new_factor) ==
    IF new_factor = None THEN RepeatOutcome(self, Some("ValueError"))
    ELSE IF Val(new_factor) < 1 THEN RepeatOutcome(self, Some("ValueError"))
    ELSE RepeatOutcome([self EXCEPT !.factor = Val(new_factor)], None)

\* Repeat.change_allowed_days: an empty value is refused for a weekly rule,
\* any value is stored otherwise
change_allowed_days(self, new_allowed_weekdays) ==
    IF self.interval = WEEKS /\ ~TruthySet(new_allowed_weekdays)
    THEN RepeatOutcome(self, Some("ValueError"))
    ELSE RepeatOutcome([self EXCEPT !.allowed_weekdays = new_allowed_weekdays],
                       None)

----------------------------------------------------------------------------
(* The next-date functions applied to bounded inputs *)

RefDates == 0..MaxRef
Factors == 1..MaxFactor
WeekdayLists == UNION {[1..n -> Weekday] : n \in 0..MaxLen}

FnInputs ==
    [reference_date : RefDates, interval : RepeatInterval, factor : Factors,
     weekdays : WeekdayLists]

\* the Repeat built from the arguments: Repeat(interval, factor, set(weekdays))
ArgRepeat == [interval |-> fn_args.interval, factor |-> fn_args.factor,
              allowed_weekdays |-> Range(fn_args.weekdays)]

----------------------------------------------------------------------------
(* domain/entities.py: class Task *)

\* the dataclass-generated Task.__init__: it stores its arguments unchecked
\* (the class defines no __post_init__)
NewTask(title, note, due_date, is_completed, is_important, repeat_type, repeat_interval, repeat_factor, repeat_allowed_days, id) ==
    [title |-> title, note |-> note, due_date |-> due_date,
     is_completed |-> is_completed, is_important |-> is_important,
     repeat_type |-> repeat_type, repeat_interval |-> repeat_interval,
     repeat_factor |-> repeat_factor,
     repeat_allowed_days |-> repeat_allowed_days, id |-> id]

\* outcome of a Task method: the object afterwards, the exception raised
\* (None when it returned) and the value returned
Outcome(self, exc, value) == [task |-> self, raised |-> exc, result |-> value]

\* mutant: clear_repeat_config forgets to reset repeat_type
clear_repeat_config_keeps_type(self) ==
    [self EXCEPT !.repeat_interval = None, !.repeat_factor = None,
                 !.repeat_allowed_days = None]

clear_repeat_config(self) ==
    [self EXCEPT !.repeat_type = None, !.repeat_interval = None,
                 !.repeat_factor = None, !.repeat_allowed_days = None]

\* Task.set_repeat_config: each field is assigned as soon as it is accepted,
\* so a later raise leaves the earlier assignments in place
set_repeat_config(self, repeat_interval, repeat_factor, repeat_allowed_days) ==
    IF ~TruthyInt(repeat_interval) THEN Outcome(self, Some("ValueError"), None)
    ELSE
        LET t1 == [self EXCEPT !.repeat_interval = repeat_interval]
        IN IF ~TruthyInt(repeat_factor)
           THEN Outcome(t1, Some("ValueError"), None)
           ELSE
               LET t2 == [t1 EXCEPT !.repeat_factor = repeat_factor]
               IN IF repeat_interval = Some(WEEKS)
                  THEN IF ~TruthyList(repeat_allowed_days)
                       THEN Outcome(t2, Some("ValueError"), None)
                       ELSE Outcome([t2 EXCEPT !.repeat_allowed_days =
                                                   repeat_allowed_days],
                                    None, None)
                  ELSE Outcome([t2 EXCEPT !.repeat_allowed_days = None],
                               None, None)

\* "self.due_date.weekday() not in WEEKDAYS": weekday() is an int and WEEKDAYS
\* holds dateutil weekday objects, whose __eq__ answers False for any object
\* without a .weekday attribute, so the membership test never succeeds
IntInWeekdayObjects(n, weekday_objects) == FALSE

\* Task.set_repeat; now is what datetime.now() returns if it is called
set_repeat(self, now, repeat_type, repeat_interval, repeat_factor, repeat_allowed_days) ==
    LET t0 == IF self.due_date = None
              THEN [self EXCEPT !.due_date = Some(now)] ELSE self
        t1 == [t0 EXCEPT !.repeat_type = Some(repeat_type)]
        due == Val(t1.due_date)
    IN IF repeat_type = "DAILY"
       THEN set_repeat_config(t1, Some(DAYS), Some(1), None)
       ELSE IF repeat_type = "WEEKDAYS" THEN
           LET o == set_repeat_config(t1, Some(WEEKS), Some(1), Some(WEEKDAYS))
               monday == find_next_due_date(t1.due_date, Some(WEEKS), Some(1),
                                            Some(<<MO>>), START_WEEKDAY)
           IN IF o.raised # None THEN o
              ELSE IF ~IntInWeekdayObjects(WeekdayOf(due), WEEKDAYS)
              THEN Outcome([o.task EXCEPT !.due_date = monday.value],
                           monday.raised, None)
              ELSE o
       ELSE IF repeat_type = "WEEKLY"
       THEN set_repeat_config(t1, Some(WEEKS), Some(1), Some(<<WeekdayOf(due)>>))
       ELSE IF repeat_type = "MONTHLY"
       THEN set_repeat_config(t1, Some(MONTHS), Some(1), None)
       ELSE IF repeat_type = "YEARLY"
       THEN set_repeat_config(t1, Some(YEARS), Some(1), None)
       ELSE IF repeat_type = "CUSTOM"
       THEN set_repeat_config(t1, repeat_interval, repeat_factor,
                              repeat_allowed_days)
       ELSE Outcome(t1, None, None)

\* mutant: set_due_date(None) leaves the repeat configuration in place
set_due_date_keeps_repeat(self, now, due_date) ==
    IF due_date = None
    THEN Outcome([self EXCEPT !.due_date = None], None, None)
    ELSE
        LET t1 == [self EXCEPT !.due_date = due_date]
        IN IF t1.repeat_type # None
           THEN set_repeat(t1, now, Val(t1.repeat_type), t1.repeat_interval,
                           t1.repeat_factor, t1.repeat_allowed_days)
           ELSE Outcome(t1, None, None)

\* Task.set_due_date
set_due_date(self, now, due_date) ==
    IF due_date = None
    THEN Outcome(clear_repeat_config([self EXCEPT !.due_date = None]), None, None)
    ELSE
        LET t1 == [self EXCEPT !.due_date = due_date]
        IN IF t1.repeat_type # None
           THEN set_repeat(t1, now, Val(t1.repeat_type), t1.repeat_interval,
                           t1.repeat_factor, t1.repeat_allowed_days)
           ELSE Outcome(t1, None, None)

\* mutant: complete clears the repeat configuration before it builds the new
\* task, which then carries no repeat
complete_clears_first(self, new_id) ==
    LET t1 == [self EXCEPT !.is_completed = TRUE]
        next_due_date == find_next_due_date(t1.due_date, t1.repeat_interval,
                                            t1.repeat_factor,
                                            t1.repeat_allowed_days, SU)
        t2 == clear_repeat_config(t1)
        new_repeating_task ==
            NewTask(t2.title, t2.note, next_due_date.value, FALSE,
                    t2.is_important, t2.repeat_type, t2.repeat_interval,
                    t2.repeat_factor, t2.repeat_allowed_days, new_id)
    IN IF t1.repeat_type # None
       THEN IF next_due_date.raised # None
            THEN Outcome(t1, next_due_date.raised, None)
            ELSE Outcome(t2, None, Some(new_repeating_task))
       ELSE Outcome(t2, None, None)

\* mutant: complete marks the task completed only inside the repeat branch
complete_flag_in_branch(self, new_id) ==
    LET t1 == [self EXCEPT !.is_completed = TRUE]
        next_due_date == find_next_due_date(t1.due_date, t1.repeat_interval,
                                            t1.repeat_factor,
                                            t1.repeat_allowed_days, SU)
        new_repeating_task ==
            NewTask(t1.title, t1.note, next_due_date.value, FALSE,
                    t1.is_important, t1.repeat_type, t1.repeat_interval,
                    t1.repeat_factor, t1.repeat_allowed_days, new_id)
    IN IF self.repeat_type # None
       THEN IF next_due_date.raised # None
            THEN Outcome(t1, next_due_date.raised, None)
            ELSE Outcome(clear_repeat_config(t1), None, Some(new_repeating_task))
       ELSE Outcome(clear_repeat_config(self), None, None)

\* Task.complete; new_id is what uuid4() returns for the new task
complete(self, new_id) ==
    LET t1 == [self EXCEPT !.is_completed = TRUE]
        next_due_date == find_next_due_date(t1.due_date, t1.repeat_interval,
                                            t1.repeat_factor,
                                            t1.repeat_allowed_days, SU)
        new_repeating_task ==
            NewTask(t1.title, t1.note, next_due_date.value, FALSE,
                    t1.is_important, t1.repeat_type, t1.repeat_interval,
                    t1.repeat_factor, t1.repeat_allowed_days, new_id)
    IN IF t1.repeat_type # None
       THEN IF next_due_date.raised # None
            THEN Outcome(t1, next_due_date.raised, None)
            ELSE Outcome(clear_repeat_config(t1), None, Some(new_repeating_task))
       ELSE Outcome(clear_repeat_config(t1), None, None)

\* Task.uncomplete
uncomplete(self) == Outcome([self EXCEPT !.is_completed = FALSE], None, None)

\* Task.is_due; it takes no argument, now is what datetime.now() returns
is_due(self, now) ==
    IF self.due_date = None THEN Outcome(self, None, Some(FALSE))
    ELSE Outcome(self, None, Some(now >= Val(self.due_date)))

----------------------------------------------------------------------------
(* Inputs of the Task operations *)

Dates == 0..MaxDue
OptDates == {None} \cup {Some(d) : d \in Dates}
OptTypes == {None} \cup {Some(t) : t \in RepeatType}
OptIntervals == {None} \cup {Some(i) : i \in RepeatInterval}
\* factor arguments: None, a negative number, 0 and 1..MaxFactor
OptFactors == {None} \cup {Some(f) : f \in (-1)..MaxFactor}
\* allowed-day lists: empty, every single weekday, Mon-Fri, and two lists that
\* are not in window order
DayLists == {<<>>} \cup {<<d>> : d \in Weekday} \cup {WEEKDAYS, <<MO, SU>>, <<FR, TU>>}
OptDayLists == {None} \cup {Some(l) : l \in DayLists}
\* repeat_allowed_days passed to Task(...): the default [] or a list
CtorDayLists == {Some(<<>>), Some(<<SU>>), Some(WEEKDAYS)}
\* repeat_factor passed to Task(...)
CtorFactors == {None} \cup {Some(f) : f \in 1..MaxFactor}
\* title, note and is_important of the tasks constructed
Profiles == {[title |-> "a", note |-> None, is_important |-> FALSE],
             [title |-> "b", note |-> Some("n"), is_important |-> TRUE]}
UUIDs == {"id0", "id1"}

\* the values datetime.now() can return where the operation reads the clock;
\* one representative where it does not
Clock(self) == IF self.due_date = None THEN Dates ELSE {0}

\* no TaskService call is made and the tasks table is empty
UowIdle ==
    /\ store = <<>>
    /\ session = None
    /\ pc = "idle"
    /\ task_id = 0
    /\ found = None
    /\ generated_repeat_task = None
    /\ new_repeat_task = None
    /\ exception = None
    /\ store0 = <<>>

\* no entities_new.py rule is constructed in the task life cycle
RuleIdle ==
    /\ rule_args = [frequency |-> None, interval |-> None,
                    allowed_weekdays |-> None, reference_date |-> 0]
    /\ rule_op = "none"
    /\ rule_ret = Return(None)

\* no Repeat object is constructed in the task life cycle
RepeatIdle ==
    /\ repeat = None
    /\ repeat_op = "none"
    /\ repeat_raised = None

\* the next-date functions are not called in the task life cycle
FnIdle ==
    /\ fn_args = [reference_date |-> 0, interval |-> DAYS, factor |-> 1,
                  weekdays |-> <<>>]
    /\ fn_op = "none"
    /\ fn_ret = Return(None)

\* a task as Task(...) constructs it: is_completed keeps its default, every
\* other field is whatever the caller passes
Init ==
    /\ UowIdle
    /\ FnIdle
    /\ RepeatIdle
    /\ RuleIdle
    /\ \E p \in Profiles, due_date \in OptDates, repeat_type \in OptTypes,
          repeat_interval \in OptIntervals, repeat_factor \in CtorFactors,
          repeat_allowed_days \in CtorDayLists :
            task = NewTask(p.title, p.note, due_date, FALSE, p.is_important,
                           repeat_type, repeat_interval, repeat_factor,
                           repeat_allowed_days, "id0")
    /\ op = "__init__"
    /\ raised = None
    /\ result = None
    /\ pre_completed = FALSE
    /\ spawned = 0

\* set_repeat(WEEKDAYS) moves the due date to a later Monday each time it is
\* called; the operations are followed while the due date stays within a week
\* of the dates passed in
InHorizon(self) ==
    IF self.due_date = None THEN TRUE ELSE Val(self.due_date) <= MaxDue + 7

\* the operation named name ends with outcome o; n is the new value of spawned
Apply(name, o, n) ==
    /\ InHorizon(o.task)
    /\ task' = o.task
    /\ op' = name
    /\ raised' = o.raised
    /\ result' = o.result
    /\ pre_completed' = task.is_completed
    /\ spawned' = n
    /\ UNCHANGED <<fn_vars, repeat_vars, rule_vars, uow_vars>>

\* set_due_date calls set_repeat when it is given a date and a repeat is set;
\* the due date is assigned first, so that call never reads the clock
SetDueDate ==
    \E due_date \in OptDates :
        Apply("set_due_date", set_due_date(task, 0, due_date),
              IF due_date # None /\ task.repeat_type # None THEN 0 ELSE spawned)

\* the standard repeat types take no further argument
SetRepeat ==
    \E repeat_type \in RepeatType \ {"CUSTOM"}, now \in Clock(task) :
        Apply("set_repeat",
              set_repeat(task, now, repeat_type, None, None, None), 0)

\* set_repeat(CUSTOM, interval, factor, allowed_days); the list is read only
\* for a weekly interval
SetRepeatCustom ==
    \E repeat_interval \in OptIntervals, repeat_factor \in OptFactors,
       now \in Clock(task) :
        \E repeat_allowed_days \in
                (IF repeat_interval = Some(WEEKS) THEN OptDayLists ELSE {None}) :
            Apply("set_repeat",
                  set_repeat(task, now, "CUSTOM", repeat_interval,
                             repeat_factor, repeat_allowed_days), 0)

Complete ==
    \E new_id \in UUIDs \ {task.id} :
        LET o == complete(task, new_id)
        IN Apply("complete", o,
                 IF o.result # None /\ spawned < 2 THEN spawned + 1 ELSE spawned)

Uncomplete == Apply("uncomplete", uncomplete(task), spawned)

Next ==
    \/ SetDueDate
    \/ SetRepeat
    \/ SetRepeatCustom
    \/ Complete
    \/ Uncomplete

Spec == Init /\ [][Next]_vars

\* the same operations on a task constructed with its defaults, Task(title=..),
\* which has no due date and no repeat
FreshInit ==
    /\ Init
    /\ task.due_date = None
    /\ task.repeat_type = None
    /\ task.repeat_interval = None
    /\ task.repeat_factor = None
    /\ task.repeat_allowed_days = Some(<<>>)

SpecFresh == FreshInit /\ [][Next]_vars

\* Task.set_repeat_config called on the task directly
SetRepeatConfig ==
    \E repeat_interval \in OptIntervals, repeat_factor \in OptFactors :
        \E repeat_allowed_days \in
                (IF repeat_interval = Some(WEEKS)
                 THEN {None} \cup CtorDayLists ELSE {None}) :
            Apply("set_repeat_config",
                  set_repeat_config(task, repeat_interval, repeat_factor,
                                    repeat_allowed_days), spawned)

\* Task.is_due() called while the clock shows any of the dates
IsDue ==
    \E now \in Dates : Apply("is_due", is_due(task, now), spawned)

\* every public method of Task, set_repeat_config and is_due included
NextConfig ==
    \/ SetDueDate
    \/ SetRepeat
    \/ SetRepeatCustom
    \/ SetRepeatConfig
    \/ Complete
    \/ Uncomplete
    \/ IsDue

SpecConfig == FreshInit /\ [][NextConfig]_vars

----------------------------------------------------------------------------
(* The next-date functions applied to bounded inputs *)

\* no Task operation is applied while the functions are examined
TaskIdle ==
    /\ task = NewTask("a", None, None, FALSE, FALSE, None, None, None,
                      Some(<<>>), "id0")
    /\ op = "__init__"
    /\ raised = None
    /\ result = None
    /\ pre_completed = FALSE
    /\ spawned = 0

FnInit ==
    /\ UowIdle
    /\ TaskIdle
    /\ RepeatIdle
    /\ RuleIdle
    /\ fn_args \in FnInputs
    /\ fn_op = "none"
    /\ fn_ret = Return(None)

\* Repeat(interval, factor, allowed_weekdays).find_next_date(reference_date),
\* for the rules that Repeat.__post_init__ accepts
CallFindNextDate ==
    /\ Repeat_post_init(Some(fn_args.interval), Some(fn_args.factor),
                        Some(Range(fn_args.weekdays))) = None
    /\ fn_op' = "find_next_date"
    /\ fn_ret' = Return(find_next_date(ArgRepeat, fn_args.reference_date,
                                       START_WEEKDAY))
    /\ UNCHANGED <<fn_args, task_vars, repeat_vars, rule_vars, uow_vars>>

\* find_next_due_date(reference_date, interval, factor, weekdays)
CallFindNextDueDate ==
    /\ fn_op' = "find_next_due_date"
    /\ fn_ret' = find_next_due_date(Some(fn_args.reference_date),
                                    Some(fn_args.interval), Some(fn_args.factor),
                                    Some(fn_args.weekdays), SU)
    /\ UNCHANGED <<fn_args, task_vars, repeat_vars, rule_vars, uow_vars>>

FnNext ==
    \/ CallFindNextDate
    \/ CallFindNextDueDate

SpecNext == FnInit /\ [][FnNext]_vars

----------------------------------------------------------------------------
(* get_start_date_of_current_week applied to bounded inputs *)

WeekInputs == [reference_date : RefDates, start_weekday : Weekday]

WeekInit ==
    /\ UowIdle
    /\ TaskIdle
    /\ RepeatIdle
    /\ RuleIdle
    /\ fn_args \in WeekInputs
    /\ fn_op = "none"
    /\ fn_ret = Return(None)

\* get_start_date_of_current_week(reference_date, start_weekday)
CallGetStartDate ==
    /\ fn_op' = "get_start_date_of_current_week"
    /\ fn_ret' = Return(Some(get_start_date_of_current_week(
                                 fn_args.reference_date, fn_args.start_weekday)))
    /\ UNCHANGED <<fn_args, task_vars, repeat_vars, rule_vars, uow_vars>>

WeekNext == CallGetStartDate

SpecWeek == WeekInit /\ [][WeekNext]_vars

----------------------------------------------------------------------------
(* The Repeat object of entities.py under its mutators *)

\* allowed_weekdays values: absent, empty, one day, the weekend
OptWeekdaySets == {None, Some({}), Some({MO}), Some({SA, SU})}

\* Repeat(interval, factor, allowed_weekdays): the object, or the error of
\* __post_init__ and no object
RepeatInit ==
    /\ UowIdle
    /\ TaskIdle
    /\ FnIdle
    /\ RuleIdle
    /\ repeat_op = "__init__"
    /\ \E interval \in OptIntervals, factor \in OptFactors,
          allowed_weekdays \in OptWeekdaySets :
            LET exc == Repeat_post_init(interval, factor, allowed_weekdays)
            IN /\ repeat_raised = exc
               /\ repeat = IF exc # None THEN None
                           ELSE Some([interval |-> Val(interval),
                                      factor |-> Val(factor),
                                      allowed_weekdays |-> allowed_weekdays])

\* a method of the constructed Repeat ends with outcome o
RepeatApply(name, o) ==
    /\ repeat' = Some(o.repeat)
    /\ repeat_op' = name
    /\ repeat_raised' = o.raised
    /\ UNCHANGED <<fn_vars, task_vars, rule_vars, uow_vars>>

ChangeInterval ==
    /\ repeat # None
    /\ \E new_interval \in OptIntervals :
        RepeatApply("change_interval", change_interval(Val(repeat), new_interval))

ChangeFactor ==
    /\ repeat # None
    /\ \E new_factor \in OptFactors :
        RepeatApply("change_factor", change_factor(Val(repeat), new_factor))

ChangeAllowedDays ==
    /\ repeat # None
    /\ \E new_allowed_weekdays \in OptWeekdaySets :
        RepeatApply("change_allowed_days",
                    change_allowed_days(Val(repeat), new_allowed_weekdays))

RepeatNext ==
    \/ ChangeInterval
    \/ ChangeFactor
    \/ ChangeAllowedDays

SpecRepeat == RepeatInit /\ [][RepeatNext]_vars

----------------------------------------------------------------------------
(* domain/entities_new.py: the rule classes and RepeatFactory *)

\* class Frequency(IntEnum); the values are those of dateutil.rrule's
\* YEARLY, MONTHLY, WEEKLY and DAILY
YEARLY == 0
MONTHLY == 1
WEEKLY == 2
DAILY == 3
Frequency == {YEARLY, MONTHLY, WEEKLY, DAILY}

\* an allowed_weekdays argument (Set[int] | str): a set of integers (elems),
\* or a string given as the sequence of its characters (chars)
SetArg(S) == [kind |-> "set", elems |-> S, chars |-> <<>>]
StrArg(s) == [kind |-> "str", elems |-> {}, chars |-> s]

\* len(allowed_weekdays)
LenOf(a) == IF a.kind = "set" THEN Cardinality(a.elems) ELSE Len(a.chars)

\* int(c) for one character: the digit's value, ValueError for anything else
DigitChars == {"0", "1", "2", "3", "4", "5", "6", "7", "8", "9"}
IntOfChar(c) ==
    CASE c = "0" -> 0 [] c = "1" -> 1 [] c = "2" -> 2 [] c = "3" -> 3
      [] c = "4" -> 4 [] c = "5" -> 5 [] c = "6" -> 6 [] c = "7" -> 7
      [] c = "8" -> 8 [] c = "9" -> 9

\* set(map(int, s)): the set of the digits' values, or ValueError
SetOfStr(s) ==
    IF \E i \in 1..Len(s) : s[i] \notin DigitChars THEN Raise("ValueError")
    ELSE Return({IntOfChar(s[i]) : i \in 1..Len(s)})

\* a rule object; allowed_weekdays is None for the classes that do not
\* declare the field
Rule(frequency, interval, allowed_weekdays) ==
    [frequency |-> frequency, interval |-> interval,
     allowed_weekdays |-> allowed_weekdays]

\* Repeat.__post_init__ of entities_new.py: None when the fields are accepted
NewRepeat_post_init(frequency, interval) ==
    IF frequency = None THEN Some("InvalidEntityStateException")
    ELSE IF interval = None THEN Some("InvalidEntityStateException")
    ELSE IF Val(interval) < 1 THEN Some("InvalidEntityStateException")
    ELSE None

\* YearlyRepeat(interval=..), MonthlyRepeat(interval=..), DailyRepeat(interval=..)
PlainRepeat(frequency, interval) ==
    LET exc == NewRepeat_post_init(Some(frequency), interval)
    IN IF exc # None THEN Raise(Val(exc))
       ELSE Return(Some(Rule(frequency, Val(interval), None)))

YearlyRepeat(interval) == PlainRepeat(YEARLY, interval)
MonthlyRepeat(interval) == PlainRepeat(MONTHLY, interval)
DailyRepeat(interval) == PlainRepeat(DAILY, interval)

\* mutant: WeeklyRepeat.__post_init__ tests only "is None", not the length
WeeklyRepeat_accepts_empty(interval, allowed_weekdays) ==
    LET exc == NewRepeat_post_init(Some(WEEKLY), interval)
    IN IF exc # None THEN Raise(Val(exc))
       ELSE IF allowed_weekdays = None
       THEN Raise("InvalidEntityStateException")
       ELSE
           LET a == Val(allowed_weekdays)
               converted == IF a.kind = "str" THEN SetOfStr(a.chars)
                            ELSE Return(a.elems)
           IN IF converted.raised # None
              THEN Raise("InvalidEntityStateException")
              ELSE IF \E weekday \in converted.value : weekday < 0 \/ weekday > 6
              THEN Raise("InvalidEntityStateException")
              ELSE Return(Some(Rule(WEEKLY, Val(interval), Some(converted.value))))

\* WeeklyRepeat(interval=.., allowed_weekdays=..) with its __post_init__
WeeklyRepeat(interval, allowed_weekdays) ==
    LET exc == NewRepeat_post_init(Some(WEEKLY), interval)
    IN IF exc # None THEN Raise(Val(exc))
       ELSE IF allowed_weekdays = None
       THEN Raise("InvalidEntityStateException")
       ELSE IF LenOf(Val(allowed_weekdays)) = 0
       THEN Raise("InvalidEntityStateException")
       ELSE
           LET a == Val(allowed_weekdays)
               converted == IF a.kind = "str" THEN SetOfStr(a.chars)
                            ELSE Return(a.elems)
           IN IF converted.raised # None
              THEN Raise("InvalidEntityStateException")
              ELSE IF \E weekday \in converted.value : weekday < 0 \/ weekday > 6
              THEN Raise("InvalidEntityStateException")
              ELSE Return(Some(Rule(WEEKLY, Val(interval), Some(converted.value))))

\* RepeatFactory.create_repeat
create_repeat(frequency, interval, allowed_weekdays) ==
    IF frequency = None /\ interval = None /\ allowed_weekdays = None
    THEN Return(None)
    ELSE IF frequency = Some(YEARLY) THEN YearlyRepeat(interval)
    ELSE IF frequency = Some(MONTHLY) THEN MonthlyRepeat(interval)
    ELSE IF frequency = Some(WEEKLY) THEN WeeklyRepeat(interval, allowed_weekdays)
    ELSE IF frequency = Some(DAILY) THEN DailyRepeat(interval)
    ELSE Raise("BusinessRuleViolationException")

\* rrule(dtstart, freq=MONTHLY, interval).after(dtstart): the rule recurs on
\* dtstart's day of the month and passes over every month that has no such
\* day; j counts the periods stepped
rrule_monthly_after(interval, dtstart) ==
    LET c == FromOrdinal(dtstart)
        t(j) == (c.month - 1) + j * interval
        y(j) == c.year + (t(j) \div 12)
        m(j) == (t(j) % 12) + 1
        hits == {j \in 1..MaxSkip : c.day <= DaysInMonth(y(j), m(j))}
    IN IF hits = {} THEN None
       ELSE Some(ToOrdinal(y(Min(hits)), m(Min(hits)), c.day))

\* rrule(dtstart, freq=YEARLY, interval).after(dtstart): the rule recurs on
\* dtstart's month and day and passes over every year that has no such day
rrule_yearly_after(interval, dtstart) ==
    LET c == FromOrdinal(dtstart)
        y(j) == c.year + j * interval
        hits == {j \in 1..MaxSkip : c.day <= DaysInMonth(y(j), c.month)}
    IN IF hits = {} THEN None
       ELSE Some(ToOrdinal(y(Min(hits)), c.month, c.day))

\* rrule(dtstart, freq=WEEKLY, interval, wkst, byweekday).after(dtstart): the
\* listed weekdays of dtstart's week (counted from wkst) from dtstart on, then
\* those of every interval-th week after it
rrule_weekly_after(interval, wkst, byweekday, dtstart) ==
    LET week_start == BackToWeekday(dtstart, wkst)
        current == {d \in (dtstart + 1)..(week_start + 6) :
                        WeekdayOf(d) \in byweekday}
        next_start == week_start + 7 * interval
        next == {d \in next_start..(next_start + 6) : WeekdayOf(d) \in byweekday}
    IN IF current # {} THEN Some(Min(current))
       ELSE IF next # {} THEN Some(Min(next))
       ELSE None

\* Repeat.get_next_date and WeeklyRepeat.get_next_date; self is a rule object
get_next_date(self, reference_date) ==
    IF self.frequency = DAILY THEN Some(reference_date + self.interval)
    ELSE IF self.frequency = MONTHLY
    THEN rrule_monthly_after(self.interval, reference_date)
    ELSE IF self.frequency = YEARLY
    THEN rrule_yearly_after(self.interval, reference_date)
    ELSE rrule_weekly_after(self.interval, START_WEEKDAY,
                            Val(self.allowed_weekdays), reference_date)

----------------------------------------------------------------------------
(* infrastructure/persistence/models.py: TaskModel.to_entity / from_entity, *)
(* the repeat columns only.  The helpers the two methods import from        *)
(* domain.utils, and Repeat.create_new, are not part of the sources; they    *)
(* follow the description of RuleFactory.build and decompose.                *)

\* num_to_frequency(code): the Frequency with that value
num_to_frequency(code) ==
    IF code = None THEN Return(None)
    ELSE IF Val(code) \in Frequency THEN Return(code)
    ELSE Raise("InvalidConfiguration")

\* str_weekdays_to_set_weekdays(digits): the set of the digits' values
str_weekdays_to_set_weekdays(digits) ==
    IF digits = None THEN Return(None)
    ELSE LET converted == SetOfStr(Val(digits))
         IN IF converted.raised # None THEN Raise("InvalidConfiguration")
            ELSE Return(Some(SetArg(converted.value)))

\* str(n) for a weekday number
CharOfInt(n) ==
    CASE n = 0 -> "0" [] n = 1 -> "1" [] n = 2 -> "2" [] n = 3 -> "3"
      [] n = 4 -> "4" [] n = 5 -> "5" [] n = 6 -> "6"

\* the elements of a set of integers in ascending order
RECURSIVE Ascending(_)
Ascending(S) ==
    IF S = {} THEN <<>> ELSE <<Min(S)>> \o Ascending(S \ {Min(S)})

\* set_weekdays_to_str_weekdays(weekdays): the digits in ascending order
set_weekdays_to_str_weekdays(weekdays) ==
    IF weekdays = None THEN None
    ELSE LET sorted == Ascending(Val(weekdays))
         IN Some([i \in 1..Len(sorted) |-> CharOfInt(sorted[i])])

\* Repeat.create_new(frequency, interval, allowed_weekdays): the rule that
\* RepeatFactory.create_repeat builds from the same values; from_entity reads
\* its allowed_weekdays whatever the frequency, None when it is not weekly
create_new(frequency, interval, allowed_weekdays) ==
    create_repeat(frequency, interval, allowed_weekdays)

\* TaskModel.to_entity: the repeat of the Task built from the three columns
to_entity(repeat_frequency, repeat_interval, repeat_allowed_weekdays) ==
    LET frequency == num_to_frequency(repeat_frequency)
        allowed_weekdays == str_weekdays_to_set_weekdays(repeat_allowed_weekdays)
    IN IF frequency.raised # None THEN Raise(Val(frequency.raised))
       ELSE IF allowed_weekdays.raised # None
       THEN Raise(Val(allowed_weekdays.raised))
       ELSE create_new(frequency.value, repeat_interval, allowed_weekdays.value)

\* mutant: from_entity stores the interval in the frequency column as well
from_entity_interval_twice(task_repeat) ==
    IF task_repeat = None
    THEN [repeat_frequency |-> None, repeat_interval |-> None,
          repeat_allowed_weekdays |-> None]
    ELSE [repeat_frequency |-> Some(Val(task_repeat).interval),
          repeat_interval |-> Some(Val(task_repeat).interval),
          repeat_allowed_weekdays |->
              set_weekdays_to_str_weekdays(Val(task_repeat).allowed_weekdays)]

\* TaskModel.from_entity: the three repeat columns of the TaskModel built
\* from a Task with that repeat
from_entity(task_repeat) ==
    IF task_repeat = None
    THEN [repeat_frequency |-> None, repeat_interval |-> None,
          repeat_allowed_weekdays |-> None]
    ELSE [repeat_frequency |-> Some(Val(task_repeat).frequency),
          repeat_interval |-> Some(Val(task_repeat).interval),
          repeat_allowed_weekdays |->
              set_weekdays_to_str_weekdays(Val(task_repeat).allowed_weekdays)]

----------------------------------------------------------------------------
(* The rule constructors applied to bounded inputs *)

\* frequency codes: absent, the four codes, and one outside them
RuleFrequencies == {None} \cup {Some(f) : f \in 0..4}
\* weekday strings: empty, in and out of order, repeated digits, a digit that
\* is no weekday, a character that is no digit
StrWeekdays ==
    {<<>>, <<"1">>, <<"1", "3">>, <<"3", "1">>, <<"1", "1">>, <<"5", "3", "1">>,
     <<"0", "6">>, <<"7">>, <<"a">>, <<"1", "a">>}
RuleWeekdays ==
    {None} \cup {Some(SetArg(S)) : S \in {{}, {MO}, {WE, SU}, {7}}}
           \cup {Some(StrArg(s)) : s \in StrWeekdays}
\* reference dates: Jan 1, Jan 30, Jan 31, Feb 28 and Feb 29 of 2024
RuleRefDates == {0, 29, 30, 58, 59}

RuleInputs ==
    [frequency : RuleFrequencies, interval : OptFactors,
     allowed_weekdays : RuleWeekdays, reference_date : RuleRefDates]

RuleInit ==
    /\ UowIdle
    /\ TaskIdle
    /\ FnIdle
    /\ RepeatIdle
    /\ rule_args \in RuleInputs
    /\ rule_op = "none"
    /\ rule_ret = Return(None)

\* WeeklyRepeat(interval=.., allowed_weekdays=..) called directly
NewWeeklyRepeat ==
    /\ rule_op' = "WeeklyRepeat"
    /\ rule_ret' = WeeklyRepeat(rule_args.interval, rule_args.allowed_weekdays)
    /\ UNCHANGED <<rule_args, fn_vars, task_vars, repeat_vars, uow_vars>>

\* RepeatFactory.create_repeat(frequency, interval, allowed_weekdays)
CreateRepeat ==
    /\ rule_op' = "create_repeat"
    /\ rule_ret' = create_repeat(rule_args.frequency, rule_args.interval,
                                 rule_args.allowed_weekdays)
    /\ UNCHANGED <<rule_args, fn_vars, task_vars, repeat_vars, uow_vars>>

\* the rule built by the last operation, when it returned one
BuiltRule == Val(rule_ret.value)

\* get_next_date(reference_date) on the rule RepeatFactory.create_repeat built
GetNextDate ==
    /\ rule_op = "create_repeat"
    /\ rule_ret.raised = None
    /\ rule_ret.value # None
    /\ rule_op' = "get_next_date"
    /\ rule_ret' = Return(get_next_date(BuiltRule, rule_args.reference_date))
    /\ UNCHANGED <<rule_args, fn_vars, task_vars, repeat_vars, uow_vars>>

\* the weekday argument as the tasks table holds it: NULL or a string
StoredWeekdays ==
    IF rule_args.allowed_weekdays = None THEN None
    ELSE Some(Val(rule_args.allowed_weekdays).chars)

\* a row is loaded with TaskModel.to_entity and the task is written back with
\* TaskModel.from_entity; the result is the three columns written, or the
\* error of to_entity
RoundTrip ==
    /\ IF rule_args.allowed_weekdays = None THEN TRUE
       ELSE Val(rule_args.allowed_weekdays).kind = "str"
    /\ rule_op' = "round_trip"
    /\ LET built == to_entity(rule_args.frequency, rule_args.interval,
                              StoredWeekdays)
       IN rule_ret' = IF built.raised # None THEN built
                      ELSE Return(Some(from_entity(built.value)))
    /\ UNCHANGED <<rule_args, fn_vars, task_vars, repeat_vars, uow_vars>>

RuleNext ==
    \/ NewWeeklyRepeat
    \/ CreateRepeat
    \/ GetNextDate
    \/ RoundTrip

SpecRule == RuleInit /\ [][RuleNext]_vars

----------------------------------------------------------------------------
(* Properties of the next-date functions (checked under SpecNext) *)

IsWeeklyCall == fn_args.interval = WEEKS /\ fn_args.weekdays # <<>>

\* the week window of date d: the seven days from the last START_WEEKDAY on or
\* before d
WindowStart(d) == CHOOSE s \in (d - 6)..d : WeekdayOf(s) = START_WEEKDAY

\* the dates of the window starting at s that fall on an allowed weekday
AllowedIn(s, allowed) == {d \in s..(s + 6) : WeekdayOf(d) \in allowed}

\* no allowed weekday lies after the reference date inside its own window
NoneLeftInWindow ==
    \A d \in AllowedIn(WindowStart(fn_args.reference_date), Range(fn_args.weekdays)) :
        d <= fn_args.reference_date

\* the earliest allowed date of the window interval weeks after the current one
EarliestInNextWindow ==
    Min(AllowedIn(WindowStart(fn_args.reference_date) + 7 * fn_args.factor,
                  Range(fn_args.weekdays)))

\* C1: for every rule that Repeat accepts and every reference date,
\* Repeat.find_next_date returns a date, and it is later than the reference.
C1_NextDateIsLater ==
    fn_op = "find_next_date" =>
        /\ fn_ret.value # None
        /\ Val(fn_ret.value) > fn_args.reference_date

\* C2: for a weekly rule with factor 1 whose allowed set is exactly the
\* weekday of the reference date, Repeat.find_next_date returns the reference
\* date + 7 days.
C2_SameWeekdayNextWeek ==
    (/\ fn_op = "find_next_date"
     /\ fn_args.interval = WEEKS
     /\ fn_args.factor = 1
     /\ Range(fn_args.weekdays) = {WeekdayOf(fn_args.reference_date)})
    => fn_ret.value = Some(fn_args.reference_date + 7)

\* C3: for a weekly rule, when no allowed weekday is left in the window of the
\* reference date, both Repeat.find_next_date and find_next_due_date return
\* the earliest allowed date of the window that starts factor weeks later.
C3_EarliestOfNextWindow ==
    (/\ fn_op \in {"find_next_date", "find_next_due_date"}
     /\ IsWeeklyCall
     /\ NoneLeftInWindow)
    => fn_ret.value = Some(EarliestInNextWindow)

\* C9: for a weekly rule with a non-empty allowed list, find_next_due_date
\* returns a date, and its weekday is one of the listed weekdays.
C9_NextDueOnAllowedWeekday ==
    (fn_op = "find_next_due_date" /\ IsWeeklyCall)
    => /\ fn_ret.raised = None
       /\ fn_ret.value # None
       /\ WeekdayOf(Val(fn_ret.value)) \in Range(fn_args.weekdays)

\* C9 witness: a two-day list, nothing left in the current window, so the date
\* comes from the window two weeks on
C9_Witness ==
    /\ fn_op = "find_next_due_date"
    /\ IsWeeklyCall
    /\ Len(fn_args.weekdays) = 2
    /\ fn_args.weekdays[1] # fn_args.weekdays[2]
    /\ fn_args.factor = 2
    /\ NoneLeftInWindow
    /\ fn_ret.value # None
    /\ Val(fn_ret.value) > fn_args.reference_date + 7
    /\ WeekdayOf(Val(fn_ret.value)) = fn_args.weekdays[1]

----------------------------------------------------------------------------
(* Properties of the Task life cycle (checked under Spec) *)

\* the task carries a well-formed repeat rule: type, interval and factor are
\* present, the factor is at least 1, a weekly rule lists at least one
\* weekday, and there is a due date to count from
HasRepeatRule(t) ==
    /\ t.repeat_type # None
    /\ t.repeat_interval # None
    /\ t.repeat_factor # None
    /\ Val(t.repeat_factor) >= 1
    /\ t.due_date # None
    /\ (t.repeat_interval = Some(WEEKS) => TruthyList(t.repeat_allowed_days))

NoRepeat(t) ==
    /\ t.repeat_type = None
    /\ t.repeat_interval = None
    /\ t.repeat_factor = None

\* C4: complete() on a not-completed task with a repeat rule returns one new
\* task with the same title, note and importance, not completed, with the
\* repeat configuration the original had before the call, another id, and due
\* on the date find_next_due_date gives for the original due date (for a daily
\* rule with factor 1: the original due date + 1 day).
C4_CompleteSpawnsSuccessor ==
    [][(op' = "complete" /\ ~task.is_completed /\ HasRepeatRule(task)) =>
        /\ raised' = None
        /\ result' # None
        /\ Val(result').title = task.title
        /\ Val(result').note = task.note
        /\ Val(result').is_important = task.is_important
        /\ Val(result').is_completed = FALSE
        /\ Val(result').repeat_type = task.repeat_type
        /\ Val(result').repeat_interval = task.repeat_interval
        /\ Val(result').repeat_factor = task.repeat_factor
        /\ Val(result').repeat_allowed_days = task.repeat_allowed_days
        /\ Val(result').id # task.id
        /\ Val(result').due_date # None
        /\ Val(result').due_date =
               find_next_due_date(task.due_date, task.repeat_interval,
                                  task.repeat_factor, task.repeat_allowed_days,
                                  SU).value
        /\ ((task.repeat_interval = Some(DAYS) /\ task.repeat_factor = Some(1))
            => Val(result').due_date = Some(Val(task.due_date) + 1))
      ]_vars

\* C4 witness: complete() on a not-completed daily task has returned the new
\* task, due one day after the original (whose due date complete leaves alone)
C4_Witness ==
    /\ op = "complete"
    /\ ~pre_completed
    /\ raised = None
    /\ result # None
    /\ Val(result).repeat_type = Some("DAILY")
    /\ Val(result).repeat_interval = Some(DAYS)
    /\ Val(result).repeat_factor = Some(1)
    /\ Val(result).title = "b"
    /\ Val(result).due_date = Some(Val(task.due_date) + 1)
    /\ Val(result).id # task.id

\* C5: a completed task carries no repeat rule.
C5_CompletedHasNoRepeat == task.is_completed => NoRepeat(task)

\* C6: complete() on a completed task raises and returns no new task,
\* uncomplete() on a task that is not completed raises, and in both cases the
\* task is left as it was.
C6_LifecycleGuards ==
    [][/\ (op' = "complete" /\ task.is_completed)
            => (raised' # None /\ result' = None /\ task' = task)
       /\ (op' = "uncomplete" /\ ~task.is_completed)
            => (raised' # None /\ task' = task)
      ]_vars

\* C7: once complete() has returned a new task, and until set_repeat is called
\* again, the task has no repeat (type, interval, factor and allowed days are
\* all absent) whatever uncomplete()/complete() calls follow, and no second
\* new task is returned.
C7_RepeatStaysDetached ==
    /\ spawned <= 1
    /\ (spawned = 1 => NoRepeat(task) /\ task.repeat_allowed_days = None)

\* C7 witness: after the new task was returned, the task was un-completed and
\* completed again, and that call returned nothing
C7_Witness ==
    /\ spawned = 1
    /\ op = "complete"
    /\ ~pre_completed
    /\ raised = None
    /\ result = None
    /\ task.is_completed

\* C8: complete() on a task without repeat returns None and leaves it
\* completed, with title, note, due date and importance unchanged.
C8_CompleteWithoutRepeat ==
    [][(op' = "complete" /\ task.repeat_type = None) =>
        /\ raised' = None
        /\ result' = None
        /\ task'.is_completed
        /\ task'.title = task.title
        /\ task'.note = task.note
        /\ task'.due_date = task.due_date
        /\ task'.is_important = task.is_important
      ]_vars

\* C8 witness: a first complete() on a task with a due date and no repeat has
\* returned None (it returns a task or raises whenever a repeat type is set)
C8_Witness ==
    /\ op = "complete"
    /\ spawned = 0
    /\ ~pre_completed
    /\ raised = None
    /\ result = None
    /\ task.is_completed
    /\ task.due_date # None
    /\ task.note # None

\* C10: Task(...) with a repeat given and no due date raises.
C10_RepeatNeedsDueDate ==
    (/\ op = "__init__"
     /\ ~NoRepeat(task)
     /\ task.due_date = None)
    => raised # None

\* C11: from a task constructed without repeat and without due date, after any
\* sequence of set_due_date, set_repeat, complete and uncomplete calls (those
\* that raise included), a task that has any part of a repeat rule has a due
\* date.
C11_RepeatImpliesDueDate == ~NoRepeat(task) => task.due_date # None

\* C11 witness: a set_repeat call on a task without due date has raised after
\* it stored the repeat type, and the task has the due date the call gave it
C11_Witness ==
    /\ op = "set_repeat"
    /\ raised # None
    /\ task.repeat_type = Some("CUSTOM")
    /\ task.repeat_factor = None
    /\ task.due_date = Some(3)

\* C12: in every state reached by set_due_date and set_repeat calls, a task
\* whose repeat is weekly (interval WEEKS with a non-empty allowed-day list) is
\* due on one of its allowed weekdays.
C12_WeeklyDueOnAllowedDay ==
    (/\ task.repeat_interval = Some(WEEKS)
     /\ task.repeat_factor # None
     /\ TruthyList(task.repeat_allowed_days)
     /\ task.due_date # None)
    => WeekdayOf(Val(task.due_date)) \in Range(Val(task.repeat_allowed_days))

\* C13: set_repeat on a task without due date raises, set_repeat(WEEKDAYS) on
\* a task due on a Saturday or Sunday raises, and no Task operation stores a
\* due date other than one the caller passed: set_repeat, complete and
\* uncomplete leave due_date as it was, set_due_date stores its argument.
C13_RejectedNotRepaired ==
    [][/\ (op' = "set_repeat" /\ task.due_date = None) => raised' # None
       /\ (/\ op' = "set_repeat"
           /\ task'.repeat_type = Some("WEEKDAYS")
           /\ task.due_date # None
           /\ WeekdayOf(Val(task.due_date)) \in {SA, SU})
          => raised' # None
       /\ op' \in {"set_repeat", "complete", "uncomplete"}
            => task'.due_date = task.due_date
       /\ op' = "set_due_date"
            => \E d \in OptDates : /\ task' = set_due_date(task, 0, d).task
                                   /\ task'.due_date = d
      ]_vars

\* the fields of the task that the mutators write
SameFields(t, u) ==
    /\ t.due_date = u.due_date
    /\ t.is_completed = u.is_completed
    /\ t.repeat_type = u.repeat_type
    /\ t.repeat_interval = u.repeat_interval
    /\ t.repeat_factor = u.repeat_factor
    /\ t.repeat_allowed_days = u.repeat_allowed_days

\* C14: when set_repeat, set_repeat_config, set_due_date or complete raises,
\* due_date, is_completed, repeat_type, repeat_interval, repeat_factor and
\* repeat_allowed_days all have the values they had before the call.
C14_AllOrNothing ==
    [][(/\ op' \in {"set_repeat", "set_repeat_config", "set_due_date", "complete"}
        /\ raised' # None)
       => SameFields(task', task)]_vars

\* C15: the factor of every rule is at least 1: the factor stored in a Repeat
\* object (after construction and after every change_factor call) and the
\* repeat_factor stored in a Task (after every set_repeat and
\* set_repeat_config call, whatever integer is passed) is never below 1.
C15_FactorAtLeastOne ==
    /\ repeat # None => Val(repeat).factor >= 1
    /\ task.repeat_factor # None => Val(task.repeat_factor) >= 1

\* C16: a Repeat object has a non-empty allowed_weekdays set exactly when its
\* interval is WEEKS, after construction and after every change_interval,
\* change_factor and change_allowed_days call.
C16_WeekdaysIffWeekly ==
    repeat # None =>
        (TruthySet(Val(repeat).allowed_weekdays) <=> Val(repeat).interval = WEEKS)

\* the allowed-weekday argument is absent or empty (None, set() or "")
NoWeekdaysGiven ==
    IF rule_args.allowed_weekdays = None THEN TRUE
    ELSE LenOf(Val(rule_args.allowed_weekdays)) = 0

\* C17: WeeklyRepeat(...) called directly, and create_repeat with frequency
\* code 2, given an absent or empty allowed-weekday set, raise
\* InvalidEntityStateException whatever the interval, and return no rule.
C17_WeeklyNeedsWeekdays ==
    (/\ NoWeekdaysGiven
     /\ \/ rule_op = "WeeklyRepeat"
        \/ (rule_op = "create_repeat" /\ rule_args.frequency = Some(WEEKLY)))
    => /\ rule_ret.raised = Some("InvalidEntityStateException")
       /\ rule_ret.value = None

\* C17 witness: create_repeat(2, 2, set()) has raised
C17_Witness ==
    /\ rule_op = "create_repeat"
    /\ rule_args.frequency = Some(WEEKLY)
    /\ rule_args.interval = Some(2)
    /\ rule_args.allowed_weekdays # None
    /\ Val(rule_args.allowed_weekdays).kind = "set"
    /\ NoWeekdaysGiven
    /\ rule_ret.raised = Some("InvalidEntityStateException")

\* civil date + interval units with the day clamped to the end of the month
ClampedNext(frequency, interval, t) ==
    IF frequency = DAILY THEN AddDays(t, interval)
    ELSE IF frequency = MONTHLY THEN AddMonths(t, interval)
    ELSE AddYears(t, interval)

\* C18: for a Daily, Monthly or Yearly rule built by RepeatFactory,
\* get_next_date(t) is t + interval days, months or years, where a day of the
\* month that the target month lacks becomes that month's last day.
C18_NextDateClamps ==
    (/\ rule_op = "get_next_date"
     /\ Val(rule_args.frequency) \in {DAILY, MONTHLY, YEARLY})
    => rule_ret.value = Some(ClampedNext(Val(rule_args.frequency),
                                         Val(rule_args.interval),
                                         rule_args.reference_date))

\* a stored triple that stands for a rule: a frequency code 0..3, an interval
\* of at least 1 and, for the weekly code only, a non-empty string of weekday
\* digits 0..6
ValidTriple ==
    /\ rule_args.frequency # None
    /\ Val(rule_args.frequency) \in 0..3
    /\ rule_args.interval # None
    /\ Val(rule_args.interval) >= 1
    /\ IF rule_args.frequency = Some(WEEKLY)
       THEN /\ StoredWeekdays # None
            /\ Len(Val(StoredWeekdays)) > 0
            /\ \A i \in 1..Len(Val(StoredWeekdays)) :
                    Val(StoredWeekdays)[i] \in {"0", "1", "2", "3", "4", "5", "6"}
       ELSE StoredWeekdays = None

\* the digit string out holds the digits of the string in, each once, ascending
IsCanonicalOf(out, in) ==
    /\ Range(out) = Range(in)
    /\ \A i, j \in 1..Len(out) : i < j => IntOfChar(out[i]) < IntOfChar(out[j])

C20_ClockIndependent ==
    \A now1, now2 \in Dates :
        /\ \A repeat_type \in RepeatType :
               set_repeat(task, now1, repeat_type, Some(DAYS), Some(1), None)
                   = set_repeat(task, now2, repeat_type, Some(DAYS), Some(1), None)
        /\ \A due_date \in OptDates :
               set_due_date(task, now1, due_date)
                   = set_due_date(task, now2, due_date)

\* the allowed dates of the reference date's window that lie after it
LeftInWindow ==
    {d \in AllowedIn(WindowStart(fn_args.reference_date), Range(fn_args.weekdays)) :
        d > fn_args.reference_date}

\* C21: for a weekly rule, when an allowed weekday lies after the due date
\* inside the due date's week window, find_next_due_date returns the earliest
\* such date, whatever the order of the list and whatever the factor.
C21_EarliestLeftInWindow ==
    (/\ fn_op = "find_next_due_date"
     /\ IsWeeklyCall
     /\ LeftInWindow # {})
    => fn_ret.value = Some(Min(LeftInWindow))

\* C22: get_start_date_of_current_week(d, w) returns the date s on weekday w
\* with s <= d < s + 7 days; when d is itself on weekday w it returns d.
C22_StartOfWeek ==
    fn_op = "get_start_date_of_current_week" =>
        /\ fn_ret.raised = None
        /\ fn_ret.value # None
        /\ WeekdayOf(Val(fn_ret.value)) = fn_args.start_weekday
        /\ Val(fn_ret.value) <= fn_args.reference_date
        /\ fn_args.reference_date < Val(fn_ret.value) + 7
        /\ (WeekdayOf(fn_args.reference_date) = fn_args.start_weekday
            => Val(fn_ret.value) = fn_args.reference_date)

\* C22 witness: the function was applied to Wednesday 2024-01-10 with a week
\* starting on Wednesday and returned that date
C22_Witness ==
    /\ fn_op = "get_start_date_of_current_week"
    /\ fn_args.reference_date = 9
    /\ fn_args.start_weekday = WE
    /\ fn_ret.value = Some(9)

----------------------------------------------------------------------------
(* application/services/task_service.py: TaskService.complete_task, with    *)
(* infrastructure/repositories/unit_of_work.py and task_repository.py.      *)
(*                                                                          *)
(* The tasks table is a sequence of rows, row i being the task of id i (the *)
(* id column is AUTOINCREMENT and complete_task deletes nothing).  The      *)
(* database is the pair of the committed table and, while a session is      *)
(* open, the table as the session's transaction sees it: the engine is      *)
(* created with autocommit=False, so a flush writes to the transaction      *)
(* only, commit publishes the transaction whole and rollback or close       *)
(* discards it.  A row keeps the columns the completion reads or writes.    *)
(* complete_task runs as one coroutine; each action below is the code up to *)
(* and including its next awaited call, and every awaited repository or     *)
(* session call may fail with an SQLAlchemyError.  Task.repeat and          *)
(* Task.create_new_repeating_task, which complete_task uses, are not part   *)
(* of the sources and follow the specification of Task.complete.            *)

MaxRows == 4        \* rows the tasks table can hold

Database(committed, view) == [store |-> committed, session |-> view]

\* the task entity the service handles
TaskEntity(id, due_date, is_completed, task_repeat) ==
    [id |-> id, due_date |-> due_date, is_completed |-> is_completed,
     repeat |-> task_repeat]

\* TaskModel.from_entity(task): the row for the task, the id left to the table
TaskModel_from_entity(t) ==
    LET columns == from_entity(t.repeat)
    IN [due_date |-> t.due_date, is_completed |-> t.is_completed,
        repeat_frequency |-> columns.repeat_frequency,
        repeat_interval |-> columns.repeat_interval,
        repeat_allowed_weekdays |-> columns.repeat_allowed_weekdays]

\* TaskModel.to_entity(): the task for row id
TaskModel_to_entity(id, row) ==
    LET built == to_entity(row.repeat_frequency, row.repeat_interval,
                           row.repeat_allowed_weekdays)
    IN IF built.raised # None THEN built
       ELSE Return(Some(TaskEntity(Some(id), row.due_date, row.is_completed,
                                   built.value)))

\* Task.create_new_repeating_task(): the successor of a repeating task, due
\* on the rule's next date and carrying the rule; None without a rule
create_new_repeating_task(self) ==
    IF self.repeat = None THEN None
    ELSE Some(TaskEntity(None,
                         get_next_date(Val(self.repeat), Val(self.due_date)),
                         FALSE, self.repeat))

\* mutant: the engine runs in autocommit mode, a flush is committed at once
flush_autocommit(db, rows) == Database(rows, Some(rows))

\* AsyncSession.flush(): the pending changes are written to the session's
\* transaction (database.py: autocommit=False)
flush(db, rows) == Database(db.store, Some(rows))

\* TaskRepository.add(task): the database and the returned task
add(db, t) ==
    LET task_model == TaskModel_from_entity(t)
        rows == Append(Val(db.session), task_model)
    IN [db |-> flush(db, rows),
        ret |-> TaskModel_to_entity(Len(rows), task_model)]

\* TaskRepository.get_by_id(id): None when no row has the id
get_by_id(db, id) ==
    IF id \notin 1..Len(Val(db.session)) THEN Return(None)
    ELSE TaskModel_to_entity(id, Val(db.session)[id])

\* TaskRepository.update(task)
update(db, t) ==
    IF t.id = None THEN [db |-> db, ret |-> Raise("ValueError")]
    ELSE IF Val(t.id) \notin 1..Len(Val(db.session))
    THEN [db |-> db, ret |-> Raise("ValueError")]
    ELSE LET task_model == TaskModel_from_entity(t)
             rows == [Val(db.session) EXCEPT ![Val(t.id)] = task_model]
         IN [db |-> flush(db, rows),
             ret |-> TaskModel_to_entity(Val(t.id), task_model)]

\* UnitOfWork.__aenter__: a new session, its transaction starting from the
\* committed table
UnitOfWork_aenter(db) == Database(db.store, Some(db.store))

\* UnitOfWork.commit()
UnitOfWork_commit(db) ==
    IF db.session = None THEN [db |-> db, ret |-> Raise("RuntimeError")]
    ELSE [db |-> Database(Val(db.session), db.session), ret |-> Return(None)]

\* UnitOfWork.__aexit__(exception_type, ...): rollback when an exception
\* leaves the block, then close and forget the session
UnitOfWork_aexit(db, exception_type) ==
    LET rolled == IF exception_type # None
                  THEN Database(db.store, Some(db.store))
                  ELSE db
    IN IF rolled.session # None THEN Database(rolled.store, None) ELSE rolled

\* the rows create_task can have stored: a task without rule and due date, a
\* daily task and a weekly task on Monday and Wednesday, due 2024-01-01
CreatedRows ==
    {[due_date |-> None, is_completed |-> FALSE, repeat_frequency |-> None,
      repeat_interval |-> None, repeat_allowed_weekdays |-> None],
     [due_date |-> Some(0), is_completed |-> FALSE,
      repeat_frequency |-> Some(DAILY), repeat_interval |-> Some(1),
      repeat_allowed_weekdays |-> None],
     [due_date |-> Some(0), is_completed |-> FALSE,
      repeat_frequency |-> Some(WEEKLY), repeat_interval |-> Some(1),
      repeat_allowed_weekdays |-> Some(<<"0", "2">>)]}

\* a table of one or two created tasks, no call in progress
ServiceInit ==
    /\ TaskIdle
    /\ FnIdle
    /\ RepeatIdle
    /\ RuleIdle
    /\ store \in [1..1 -> CreatedRows] \cup [1..2 -> CreatedRows]
    /\ session = None
    /\ pc = "idle"
    /\ task_id = 0
    /\ found = None
    /\ generated_repeat_task = None
    /\ new_repeat_task = None
    /\ exception = None
    /\ store0 = store

TheDatabase == Database(store, session)

\* an exception leaves the "async with" block
Throw(db, e) ==
    /\ store' = db.store
    /\ session' = db.session
    /\ exception' = Some(e)
    /\ pc' = "__aexit__"
    /\ UNCHANGED <<task_id, found, generated_repeat_task, new_repeat_task, store0>>

\* complete_task(task_id) is called: any id of the table or the one after
CompleteTask ==
    /\ pc \in {"idle", "done"}
    /\ Len(store) < MaxRows
    /\ \E id \in 1..(Len(store) + 1) : task_id' = id
    /\ pc' = "__aenter__"
    /\ store0' = store
    /\ found' = None
    /\ generated_repeat_task' = None
    /\ new_repeat_task' = None
    /\ exception' = None
    /\ UNCHANGED <<store, session>>
    /\ UNCHANGED <<fn_vars, task_vars, repeat_vars, rule_vars>>

\* async with self._uow_factory as uow
AEnter ==
    /\ pc = "__aenter__"
    /\ LET db == UnitOfWork_aenter(TheDatabase)
       IN /\ store' = db.store
          /\ session' = db.session
    /\ pc' = "get_by_id"
    /\ UNCHANGED <<task_id, found, generated_repeat_task, new_repeat_task, exception, store0>>
    /\ UNCHANGED <<fn_vars, task_vars, repeat_vars, rule_vars>>

\* task = await uow.tasks.get_by_id(task_id), the two checks and
\* create_new_repeating_task(); without a successor to add, the two
\* assignments to the task as well
GetById ==
    /\ pc = "get_by_id"
    /\ \E fails \in BOOLEAN :
        LET got == get_by_id(TheDatabase, task_id)
        IN IF fails THEN Throw(TheDatabase, "SQLAlchemyError")
           ELSE IF got.raised # None THEN Throw(TheDatabase, Val(got.raised))
           ELSE IF got.value = None THEN Throw(TheDatabase, "ValueError")
           ELSE IF Val(got.value).is_completed
           THEN Throw(TheDatabase, "ValueError")
           ELSE LET t == Val(got.value)
                    generated == create_new_repeating_task(t)
                IN /\ generated_repeat_task' = generated
                   /\ found' = IF generated # None THEN Some(t)
                               ELSE Some([t EXCEPT !.is_completed = TRUE,
                                                   !.repeat = None])
                   /\ pc' = IF generated # None THEN "add" ELSE "update"
                   /\ UNCHANGED <<store, session, task_id, new_repeat_task, exception, store0>>
    /\ UNCHANGED <<fn_vars, task_vars, repeat_vars, rule_vars>>

\* new_repeat_task = await uow.tasks.add(generated_repeat_task), then the two
\* assignments to the task; the call can fail in its flush or, the row
\* written, in its refresh
Add ==
    /\ pc = "add"
    /\ \E fails \in {"no", "flush", "refresh"} :
        LET added == add(TheDatabase, Val(generated_repeat_task))
        IN IF fails = "flush" THEN Throw(TheDatabase, "SQLAlchemyError")
           ELSE IF fails = "refresh" THEN Throw(added.db, "SQLAlchemyError")
           ELSE IF added.ret.raised # None
           THEN Throw(added.db, Val(added.ret.raised))
           ELSE /\ store' = added.db.store
                /\ session' = added.db.session
                /\ new_repeat_task' = added.ret.value
                /\ found' = Some([Val(found) EXCEPT !.is_completed = TRUE,
                                                    !.repeat = None])
                /\ pc' = "update"
                /\ UNCHANGED <<task_id, generated_repeat_task, exception, store0>>
    /\ UNCHANGED <<fn_vars, task_vars, repeat_vars, rule_vars>>

\* task = await uow.tasks.update(task)
Update ==
    /\ pc = "update"
    /\ \E fails \in {"no", "flush", "refresh"} :
        LET updated == update(TheDatabase, Val(found))
        IN IF fails = "flush" THEN Throw(TheDatabase, "SQLAlchemyError")
           ELSE IF fails = "refresh" THEN Throw(updated.db, "SQLAlchemyError")
           ELSE IF updated.ret.raised # None
           THEN Throw(updated.db, Val(updated.ret.raised))
           ELSE /\ store' = updated.db.store
                /\ session' = updated.db.session
                /\ found' = updated.ret.value
                /\ pc' = "commit"
                /\ UNCHANGED <<task_id, generated_repeat_task, new_repeat_task, exception, store0>>
    /\ UNCHANGED <<fn_vars, task_vars, repeat_vars, rule_vars>>

\* await uow.commit(), after which the method returns
Commit ==
    /\ pc = "commit"
    /\ \E fails \in BOOLEAN :
        LET committed == UnitOfWork_commit(TheDatabase)
        IN IF fails THEN Throw(TheDatabase, "SQLAlchemyError")
           ELSE IF committed.ret.raised # None
           THEN Throw(committed.db, Val(committed.ret.raised))
           ELSE /\ store' = committed.db.store
                /\ session' = committed.db.session
                /\ pc' = "__aexit__"
                /\ UNCHANGED <<task_id, found, generated_repeat_task, new_repeat_task, exception, store0>>
    /\ UNCHANGED <<fn_vars, task_vars, repeat_vars, rule_vars>>

\* the "async with" block is left, by return or by exception
AExit ==
    /\ pc = "__aexit__"
    /\ LET db == UnitOfWork_aexit(TheDatabase, exception)
       IN /\ store' = db.store
          /\ session' = db.session
    /\ pc' = "done"
    /\ UNCHANGED <<task_id, found, generated_repeat_task, new_repeat_task, exception, store0>>
    /\ UNCHANGED <<fn_vars, task_vars, repeat_vars, rule_vars>>

ServiceNext ==
    \/ CompleteTask
    \/ AEnter
    \/ GetById
    \/ Add
    \/ Update
    \/ Commit
    \/ AExit

SpecService == ServiceInit /\ [][ServiceNext]_vars

\* row i of the table carries a repeat rule
Repeating(rows, i) == rows[i].repeat_frequency # None

\* the committed table holds the whole completion of task_id and nothing
\* else: the original completed with its rule cleared, every other old row
\* as it was, and one new row exactly when the original carried a rule, that
\* row uncompleted and carrying the rule
WholeCompletion ==
    /\ task_id \in 1..Len(store0)
    /\ ~store0[task_id].is_completed
    /\ Len(store) >= Len(store0)
    /\ \A i \in 1..Len(store0) : i # task_id => store[i] = store0[i]
    /\ store[task_id].is_completed
    /\ ~Repeating(store, task_id)
    /\ IF Repeating(store0, task_id)
       THEN /\ Len(store) = Len(store0) + 1
            /\ ~store[Len(store)].is_completed
            /\ store[Len(store)].repeat_frequency = store0[task_id].repeat_frequency
            /\ store[Len(store)].repeat_interval = store0[task_id].repeat_interval
            /\ store[Len(store)].repeat_allowed_weekdays = store0[task_id].repeat_allowed_weekdays
       ELSE Len(store) = Len(store0)

\* C23: complete_task is atomic with respect to the store.  At every moment
\* of a call the committed table is either the table the call found or that
\* table with the whole completion, the successor inserted and the original
\* completed with its rule cleared, and the latter only from the commit on;
\* a call that ended with an exception left the table it found, a call that
\* returned left the whole completion, and either way the session is closed.
C23_CompletionAtomic ==
    /\ \/ store = store0
       \/ /\ pc \in {"__aexit__", "done"}
          /\ exception = None
          /\ WholeCompletion
    /\ pc = "done" =>
        /\ session = None
        /\ exception # None => store = store0
        /\ exception = None => WholeCompletion

\* C23 witness: after one completion was committed (a completed row and its
\* successor in the table) a later call inserted its successor in the
\* session, failed after that, and has ended with the table it found
C23_Witness ==
    /\ pc = "done"
    /\ exception = Some("SQLAlchemyError")
    /\ generated_repeat_task # None
    /\ found # None
    /\ Val(found).is_completed
    /\ store = store0
    /\ session = None
    /\ \E i \in 1..Len(store) : store[i].is_completed

============================================================================
